---------------------------- MODULE Spec2Model ----------------------------
(***************************************************************************)
(* Model of bayes_factors.py: bayes_factor() and int_normPDF_prod().       *)
(*                                                                         *)
(* Numbers are binary floating point values m * 2^e with a significand of  *)
(* Precision bits, rounded to nearest (ties to even) after every           *)
(* arithmetic operation, plus NaN and the two infinities.  Every value     *)
(* carries whether it is a numpy scalar (np) or a plain Python number,     *)
(* because the two differ on division by zero: Python raises               *)
(* ZeroDivisionError, numpy returns nan or inf.  Python's None, an unbound *)
(* local and a raised exception are values of the same record type.        *)
(***************************************************************************)
EXTENDS Integers, Sequences, FiniteSets, TLC

(***************************************************************************)
(* Values                                                                  *)
(***************************************************************************)
\* Significand width of the model's floating point numbers (float64 has 53).
Precision == 11

Val(t, m, e, np, x) == [t |-> t, m |-> m, e |-> e, np |-> np, x |-> x]

None == Val("none", 0, 0, FALSE, "")
Unbound == Val("unbound", 0, 0, FALSE, "")
NaN == Val("nan", 0, 0, TRUE, "")
Inf(sign) == Val("inf", sign, 0, TRUE, "")
Str(s) == Val("str", 0, 0, FALSE, s)
Err(name) == Val("err", 0, 0, FALSE, name)

IsNum(a) == a.t = "num"
IsErr(a) == a.t = "err"
\* a float in the Python sense: finite number, nan or infinity
IsFloat(a) == a.t \in {"num", "nan", "inf"}

Abs(n) == IF n < 0 THEN -n ELSE n
Sign(n) == IF n < 0 THEN -1 ELSE IF n > 0 THEN 1 ELSE 0

RECURSIVE StripZeros(_, _)
\* canonical form of m * 2^e: m odd, or m = 0 and e = 0
StripZeros(m, e) ==
  IF m = 0 THEN <<0, 0>>
  ELSE IF m % 2 = 0 THEN StripZeros(m \div 2, e + 1)
  ELSE <<m, e>>

\* the finite number with significand c[1] and exponent c[2]
Finite(c, np) == Val("num", c[1], c[2], np, "")

Num(m, e, np) == Finite(StripZeros(m, e), np)

\* a Python int or float literal
Py(n) == Num(n, 0, FALSE)

RECURSIVE ScaleUp(_, _, _)
\* the least k >= 0 with n * 2^k >= lim, as <<n * 2^k, k>>   (n > 0)
ScaleUp(n, k, lim) == IF n >= lim THEN <<n, k>> ELSE ScaleUp(2 * n, k + 1, lim)

RECURSIVE BitLen(_)
BitLen(n) == IF n = 0 THEN 0 ELSE 1 + BitLen(n \div 2)

\* q / 2^drop rounded to an integer, ties to even; sticky tells that q is
\* itself the floor of a larger quotient
RoundShift(q, drop, sticky) ==
  LET unit == 2^drop
      hi == q \div unit
      lo == q % unit
  IN IF \/ 2 * lo > unit
        \/ 2 * lo = unit /\ (sticky \/ hi % 2 = 1)
       THEN hi + 1 ELSE hi

\* sign * (q + a fraction, present iff sticky) * 2^e rounded to Precision bits
\* (q >= 2^Precision)
RoundQuot(sign, q, sticky, drop, e, np) ==
  Num(sign * RoundShift(q, drop, sticky), e + drop, np)

\* sign * (s[1] / den) * 2^(e - s[2]) rounded to Precision bits
RoundScaled(sign, s, den, e, np) ==
  RoundQuot(sign, s[1] \div den, s[1] % den > 0,
            BitLen(s[1] \div den) - Precision, e - s[2], np)

\* sign * (num / den) * 2^e rounded to Precision bits, ties to even
\* (num >= 0, den > 0)
RoundRat(sign, num, den, e, np) ==
  IF num = 0 THEN Num(0, 0, np)
  ELSE RoundScaled(sign, ScaleUp(num, 0, den * 2^Precision), den, e, np)


(***************************************************************************)
(* Floating point arithmetic with Python / numpy semantics                 *)
(***************************************************************************)
\* position of the leading bit of a finite non-zero number
Top(a) == a.e + BitLen(Abs(a.m))

\* a + b for finite numbers
AddNum(a, b, np) ==
  IF a.m = 0 THEN Num(b.m, b.e, np)
  ELSE IF b.m = 0 THEN Num(a.m, a.e, np)
  ELSE IF Top(a) - Top(b) > Precision + 2 THEN Num(a.m, a.e, np)
  ELSE IF Top(b) - Top(a) > Precision + 2 THEN Num(b.m, b.e, np)
  ELSE
    LET emin == IF a.e < b.e THEN a.e ELSE b.e
        sum == a.m * 2^(a.e - emin) + b.m * 2^(b.e - emin)
    IN RoundRat(Sign(sum), Abs(sum), 1, emin, np)

\* the operand check every binary operator makes: an exception raised while
\* evaluating an operand propagates (left operand first); None and strings
\* are not numbers
Operands(a, b) ==
  IF IsErr(a) THEN a
  ELSE IF IsErr(b) THEN b
  ELSE IF a.t = "unbound" \/ b.t = "unbound" THEN Err("UnboundLocalError")
  ELSE IF ~IsFloat(a) \/ ~IsFloat(b) THEN Err("TypeError")
  ELSE None

Neg(a) ==
  IF a.t \in {"num", "inf"} THEN [a EXCEPT !.m = -a.m] ELSE a

Add(a, b) ==
  LET chk == Operands(a, b)
      np == a.np \/ b.np
  IN IF IsErr(chk) THEN chk
     ELSE IF a.t = "nan" \/ b.t = "nan" THEN NaN
     ELSE IF a.t = "inf" /\ b.t = "inf"
       THEN IF a.m = b.m THEN Inf(a.m) ELSE NaN
     ELSE IF a.t = "inf" THEN Inf(a.m)
     ELSE IF b.t = "inf" THEN Inf(b.m)
     ELSE AddNum(a, b, np)

Sub(a, b) == Add(a, Neg(b))

Mul(a, b) ==
  LET chk == Operands(a, b)
      np == a.np \/ b.np
  IN IF IsErr(chk) THEN chk
     ELSE IF a.t = "nan" \/ b.t = "nan" THEN NaN
     ELSE IF a.t = "inf" \/ b.t = "inf"
       THEN IF a.m = 0 \/ b.m = 0 THEN NaN ELSE Inf(Sign(a.m) * Sign(b.m))
     ELSE RoundRat(Sign(a.m) * Sign(b.m), Abs(a.m) * Abs(b.m), 1, a.e + b.e, np)

\* a / b: two Python numbers raise ZeroDivisionError on a zero divisor, a
\* numpy operand gives nan (0/0) or a signed infinity with a warning
Div(a, b) ==
  LET chk == Operands(a, b)
      np == a.np \/ b.np
  IN IF IsErr(chk) THEN chk
     ELSE IF IsNum(b) /\ b.m = 0 /\ ~np THEN Err("ZeroDivisionError")
     ELSE IF a.t = "nan" \/ b.t = "nan" THEN NaN
     ELSE IF a.t = "inf"
       THEN IF b.t = "inf" THEN NaN
            ELSE Inf(a.m * (IF b.m < 0 THEN -1 ELSE 1))
     ELSE IF b.t = "inf" THEN Num(0, 0, TRUE)
     ELSE IF b.m = 0
       THEN IF a.m = 0 THEN NaN ELSE Inf(Sign(a.m))
     ELSE RoundRat(Sign(a.m) * Sign(b.m), Abs(a.m), Abs(b.m), a.e - b.e, np)

\* -1, 0, 1 as a < b, a = b, a > b; for floats other than nan
Cmp(a, b) ==
  IF a.t = "inf" /\ b.t = "inf" THEN Sign(a.m - b.m)
  ELSE IF a.t = "inf" THEN a.m
  ELSE IF b.t = "inf" THEN -b.m
  ELSE Sign(AddNum(a, Neg(b), TRUE).m)

\* the comparisons are used on floats only; a comparison with nan is false
Lt(a, b) == a.t # "nan" /\ b.t # "nan" /\ Cmp(a, b) < 0
Gt(a, b) == Lt(b, a)
Ge(a, b) == a.t # "nan" /\ b.t # "nan" /\ Cmp(a, b) >= 0
Le(a, b) == Ge(b, a)
\* numeric equality (==), which ignores the Python / numpy distinction
Eq(a, b) ==
  /\ a.t \in {"num", "inf"}
  /\ b.t \in {"num", "inf"}
  /\ Cmp(a, b) = 0

\* Python's max(a, b) and min(a, b) return one of their arguments
max(a, b) ==
  LET chk == Operands(a, b)
  IN IF IsErr(chk) THEN chk ELSE IF Gt(b, a) THEN b ELSE a

min(a, b) ==
  LET chk == Operands(a, b)
  IN IF IsErr(chk) THEN chk ELSE IF Lt(b, a) THEN b ELSE a

\* truth value of an argument in "if H1_value:"
Truthy(a) ==
  CASE a.t = "none" -> FALSE
    [] a.t = "num" -> a.m # 0
    [] a.t = "str" -> a.x # ""
    [] OTHER -> TRUE

\* np.abs: the result is a numpy scalar
np_abs(a) ==
  IF IsErr(a) THEN a
  ELSE IF ~IsFloat(a) THEN Err("TypeError")
  ELSE IF a.t = "nan" THEN NaN
  ELSE IF a.t = "inf" THEN Inf(1)
  ELSE Num(Abs(a.m), a.e, TRUE)

RECURSIVE ISqrt(_, _, _)
\* floor of the square root of n, found bit by bit from 2^bit downwards
ISqrt(n, bit, acc) ==
  IF bit < 0 THEN acc
  ELSE LET try == acc + 2^bit
       IN ISqrt(n, bit - 1, IF try * try <= n THEN try ELSE acc)

\* the rounded square root of n * 2^ex, root the floor of the square root of
\* n (ex even, n >= 2^(2 * Precision + 2)); a sticky bit keeps an inexact
\* root off the rounding tie
SqrtRounded(n, root, ex) ==
  RoundRat(1, IF root * root = n THEN 2 * root ELSE 2 * root + 1, 2,
           ex \div 2, TRUE)

\* the rounded square root of n * 2^ex (ex even)
SqrtEven(n, ex) == SqrtRounded(n, ISqrt(n, Precision + 2, 0), ex)

\* the rounded square root of s[1] * 2^(e - s[2])
SqrtScaled(s, e) ==
  IF (e - s[2]) % 2 # 0 THEN SqrtEven(2 * s[1], e - s[2] - 1)
  ELSE SqrtEven(s[1], e - s[2])

\* np.sqrt, correctly rounded: nan below zero
np_sqrt(a) ==
  IF IsErr(a) THEN a
  ELSE IF ~IsFloat(a) THEN Err("TypeError")
  ELSE IF a.t = "nan" THEN NaN
  ELSE IF a.t = "inf" THEN (IF a.m > 0 THEN Inf(1) ELSE NaN)
  ELSE IF a.m < 0 THEN NaN
  ELSE IF a.m = 0 THEN Num(0, 0, TRUE)
  ELSE SqrtScaled(ScaleUp(a.m, 0, 2^(2 * Precision + 2)), a.e)

(***************************************************************************)
(* scipy.stats.norm                                                        *)
(*                                                                         *)
(* The standard normal density and distribution function are tabulated at  *)
(* the multiples of 1/4 in [-5, 5] (in units of 2^-24) and read at the     *)
(* nearest knot; beyond the table the density and the lower tail underflow *)
(* to 0, as they do in float64 further out.                                *)
(***************************************************************************)
PdfTable ==
  << 6693141, 6487215, 5906676, 5052248, 4059595, 3064343, 2172945,
     1447493, 905818, 532503, 294076, 152565, 74354, 34042, 14641, 5916,
     2245, 801, 268, 84, 25 >>

CdfTable ==
  << 5, 17, 57, 179, 531, 1483, 3903, 9681, 22648, 49992, 104181, 205093,
     381684, 672081, 1120839, 1772509, 2661793, 3802176, 5176401, 6732591,
     8388608, 10044625, 11600815, 12975040, 14115423, 15004707, 15656377,
     16105135, 16395532, 16572123, 16673035, 16727224, 16754568, 16767535,
     16773313, 16775733, 16776685, 16777037, 16777159, 16777199, 16777211 >>

\* the last knot of the tables is Knots / 4
Knots == Len(PdfTable) - 1

\* the knot nearest to the finite number z, Knots + 1 or -(Knots + 1) when z
\* lies beyond the table
Knot(z) ==
  IF z.m = 0 THEN 0
  ELSE IF Top(z) > 4 THEN Sign(z.m) * (Knots + 1)
  ELSE
    LET sh == z.e + 2
        k == IF sh >= 0 THEN Abs(z.m) * 2^sh
             ELSE IF -sh > Precision + 3 THEN 0
             ELSE (2 * Abs(z.m) + 2^(-sh)) \div 2^(1 - sh)
    IN IF k > Knots THEN Sign(z.m) * (Knots + 1) ELSE Sign(z.m) * k

\* the tabulated density at knot k >= 0
PdfAt(k) ==
  IF k > Knots THEN Num(0, 0, TRUE)
  ELSE RoundRat(1, PdfTable[k + 1], 1, -24, TRUE)

\* the tabulated distribution function at knot k
CdfAt(k) ==
  IF k > Knots THEN Num(1, 0, TRUE)
  ELSE IF k < -Knots THEN Num(0, 0, TRUE)
  ELSE RoundRat(1, CdfTable[k + Knots + 1], 1, -24, TRUE)

\* density of the standard normal distribution at z (z a float)
std_pdf(z) ==
  IF z.t = "nan" THEN NaN
  ELSE IF z.t = "inf" THEN Num(0, 0, TRUE)
  ELSE PdfAt(Abs(Knot(z)))

\* distribution function of the standard normal distribution at z
std_cdf(z) ==
  IF z.t = "nan" THEN NaN
  ELSE IF z.t = "inf" THEN Num(IF z.m > 0 THEN 1 ELSE 0, 0, TRUE)
  ELSE CdfAt(Knot(z))

AsNumpy(a) == [a EXCEPT !.np = TRUE]

\* the first exception raised by a sequence of statements, or the last value
RECURSIVE FirstErr(_)
FirstErr(vals) ==
  IF Len(vals) = 1 \/ IsErr(Head(vals)) THEN Head(vals) ELSE FirstErr(Tail(vals))

\* norm.pdf(x, loc=loc, scale=scale): nan unless scale > 0; never raises on
\* numbers, raises TypeError on None
norm_pdf(x, loc, scale) ==
  LET chk == FirstErr(<<Operands(x, loc), Operands(loc, scale)>>)
  IN IF IsErr(chk) THEN chk
     ELSE IF ~Gt(scale, Py(0)) THEN NaN
     ELSE Div(std_pdf(Div(Sub(AsNumpy(x), loc), scale)), scale)

\* norm.cdf(x, loc=loc, scale=scale)
norm_cdf(x, loc, scale) ==
  LET chk == FirstErr(<<Operands(x, loc), Operands(loc, scale)>>)
  IN IF IsErr(chk) THEN chk
     ELSE IF ~Gt(scale, Py(0)) THEN NaN
     ELSE std_cdf(Div(Sub(AsNumpy(x), loc), scale))

(***************************************************************************)
(* int_normPDF_prod                                                        *)
(***************************************************************************)
\* v1 = sd1**2 and v2 = sd2**2 are the variances of the two distributions.
\* m: mean of the Gaussian the product of the two densities is a multiple of.
ProdMean(m1, v1, m2, v2) == Div(Add(Mul(m1, v2), Mul(m2, v1)), Add(v1, v2))

\* v: variance of that Gaussian.
ProdVar(v1, v2) == Div(Mul(v1, v2), Add(v1, v2))

\* c: constant to scale that Gaussian by.
ProdScale(m1, v1, m2, v2) ==
  norm_pdf(Sub(m1, m2), Py(0), np_sqrt(Add(v1, v2)))

\* ScaledIntegral with the lower end read off a distribution centred at x_lo
ScaledIntegralOffCentre(m, v, c, x_lo, x_hi) ==
  FirstErr(<< m, v, c,
              Sub(Mul(c, norm_cdf(x_hi, m, np_sqrt(v))),
                  Mul(c, norm_cdf(x_lo, x_lo, np_sqrt(v)))) >>)

\* the value returned, m, v and c computed in this order
ScaledIntegral(m, v, c, x_lo, x_hi) ==
  FirstErr(<< m, v, c,
              Sub(Mul(c, norm_cdf(x_hi, m, np_sqrt(v))),
                  Mul(c, norm_cdf(x_lo, m, np_sqrt(v)))) >>)

\* the function from the variances on
ProdIntegral(m1, v1, m2, v2, x_lo, x_hi) ==
  FirstErr(<< v1, v2,
              ScaledIntegral(ProdMean(m1, v1, m2, v2), ProdVar(v1, v2),
                             ProdScale(m1, v1, m2, v2), x_lo, x_hi) >>)

int_normPDF_prod(m1, sd1, m2, sd2, x_lo, x_hi) ==
  ProdIntegral(m1, Mul(sd1, sd1), m2, Mul(sd2, sd2), x_lo, x_hi)

(***************************************************************************)
(* bayes_factor: the state of one call                                     *)
(***************************************************************************)
VARIABLES
  pc,              \* position in bayes_factor
  data_mean, data_SE, H1_distribution, H1_value, H0_value, plot, summary,
  uniform_max, uniform_min, normal_mode, normal_SD, half,
                   \* the parameters, reassigned when H1_value is given
  args,            \* the H1 parameters as the caller passed them
  likelihood_0, likelihood_1, x_min, x_max, bayes_factor,
                   \* locals, Unbound until assigned
  int_calls,       \* the calls of int_normPDF_prod made so far
  figure,          \* what pylab has been asked to draw
  printed,         \* the summary lines printed
  outcome,         \* how the call ended: returned value or raised exception
  probe            \* the arguments of a direct use of int_normPDF_prod

vars ==
  << pc, data_mean, data_SE, H1_distribution, H1_value, H0_value, plot,
     summary, uniform_max, uniform_min, normal_mode, normal_SD, half, args,
     likelihood_0, likelihood_1, x_min, x_max, bayes_factor, int_calls,
     figure, printed, outcome, probe >>

\* the state as one record, so that a step is a function of frames
Frame ==
  [ pc |-> pc, data_mean |-> data_mean, data_SE |-> data_SE,
    H1_distribution |-> H1_distribution, H1_value |-> H1_value,
    H0_value |-> H0_value, plot |-> plot, summary |-> summary,
    uniform_max |-> uniform_max, uniform_min |-> uniform_min,
    normal_mode |-> normal_mode, normal_SD |-> normal_SD, half |-> half,
    args |-> args, likelihood_0 |-> likelihood_0,
    likelihood_1 |-> likelihood_1, x_min |-> x_min, x_max |-> x_max,
    bayes_factor |-> bayes_factor, int_calls |-> int_calls,
    figure |-> figure, printed |-> printed, outcome |-> outcome ]

Becomes(f) ==
  /\ pc' = f.pc
  /\ data_mean' = f.data_mean
  /\ data_SE' = f.data_SE
  /\ H1_distribution' = f.H1_distribution
  /\ H1_value' = f.H1_value
  /\ H0_value' = f.H0_value
  /\ plot' = f.plot
  /\ summary' = f.summary
  /\ uniform_max' = f.uniform_max
  /\ uniform_min' = f.uniform_min
  /\ normal_mode' = f.normal_mode
  /\ normal_SD' = f.normal_SD
  /\ half' = f.half
  /\ args' = f.args
  /\ likelihood_0' = f.likelihood_0
  /\ likelihood_1' = f.likelihood_1
  /\ x_min' = f.x_min
  /\ x_max' = f.x_max
  /\ bayes_factor' = f.bayes_factor
  /\ int_calls' = f.int_calls
  /\ figure' = f.figure
  /\ printed' = f.printed
  /\ outcome' = f.outcome
  /\ probe' = probe

NoOutcome == [kind |-> "none", val |-> None, err |-> ""]

\* int_normPDF_prod(m1, sd1, m2, sd2, ., .) to be used on [lo, mid], [mid, hi]
\* and [lo, hi]
Probe(m1, sd1, m2, sd2, lo, mid, hi) ==
  [m1 |-> m1, sd1 |-> sd1, m2 |-> m2, sd2 |-> sd2, lo |-> lo, mid |-> mid,
   hi |-> hi]

NoProbe == Probe(None, None, None, None, None, None, None)

\* the explicit H1 parameters of a call
Params(umax, umin, mode, sd, hf) ==
  [ uniform_max |-> umax, uniform_min |-> umin, normal_mode |-> mode,
    normal_SD |-> sd, half |-> hf ]

\* the frame on entry to bayes_factor(dm, se, dist, H1_value=h1, ..., H0_value=h0,
\* plot=pl, summary=su)
Call(dm, se, dist, h1, prm, h0, pl, su) ==
  [ pc |-> "assert", data_mean |-> dm, data_SE |-> se,
    H1_distribution |-> dist, H1_value |-> h1, H0_value |-> h0,
    plot |-> pl, summary |-> su,
    uniform_max |-> prm.uniform_max, uniform_min |-> prm.uniform_min,
    normal_mode |-> prm.normal_mode, normal_SD |-> prm.normal_SD,
    half |-> prm.half, args |-> prm,
    likelihood_0 |-> Unbound, likelihood_1 |-> Unbound, x_min |-> Unbound,
    x_max |-> Unbound, bayes_factor |-> Unbound, int_calls |-> << >>,
    figure |-> << >>, printed |-> << >>, outcome |-> NoOutcome ]

\* the call ends with an exception
Raise(f, exc) ==
  [f EXCEPT !.pc = "raised",
            !.outcome = [kind |-> "raise", val |-> None, err |-> exc.x]]

(***************************************************************************)
(* bayes_factor: its steps, each a function from frame to frame            *)
(***************************************************************************)
Families == {"uniform", "normal", "half-normal"}

\* AssertDistribution with the assertion left out
AssertDistributionSkipped(f) == [f EXCEPT !.pc = "derive"]

\* assert H1_distribution in ["uniform", "normal", "half-normal"]
AssertDistribution(f) ==
  IF f.H1_distribution \in Families
    THEN [f EXCEPT !.pc = "derive"]
    ELSE Raise(f, Err("AssertionError"))

\* if H1_value: standard parameter choices from Dienes 2014
DeriveParameters(f) ==
  IF ~Truthy(f.H1_value) THEN [f EXCEPT !.pc = "likelihood_0"]
  ELSE
    CASE f.H1_distribution = "uniform" ->
           [f EXCEPT !.pc = "likelihood_0",
                     !.uniform_max = max(f.H1_value, f.H0_value),
                     !.uniform_min = min(f.H1_value, f.H0_value)]
      [] f.H1_distribution = "normal" ->
           [f EXCEPT !.pc = "likelihood_0",
                     !.normal_mode = f.H1_value,
                     !.normal_SD =
                        Div(np_abs(Sub(f.H1_value, f.H0_value)), Py(2))]
      [] f.H1_distribution = "half-normal" ->
           [f EXCEPT !.pc = "likelihood_0",
                     !.normal_mode = f.H0_value,
                     !.normal_SD = np_abs(Sub(f.H1_value, f.H0_value)),
                     !.half = IF Gt(f.H1_value, f.H0_value)
                                THEN Str("upper") ELSE Str("lower")]
      [] OTHER -> [f EXCEPT !.pc = "likelihood_0"]

\* the assignment "name = val" followed by a move to next, or the exception
\* the evaluation of val raised
Assign(f, name, val, next) ==
  IF IsErr(val) THEN Raise(f, val)
  ELSE [f EXCEPT !.pc = next, ![name] = val]

\* likelihood_0 = norm.pdf(data_mean - H0_value, scale=data_SE)
Likelihood0(f) ==
  Assign(f, "likelihood_0",
         norm_pdf(Sub(f.data_mean, f.H0_value), Py(0), f.data_SE),
         "likelihood_1")

Likelihood1Uniform(f) ==
  Assign(f, "likelihood_1",
         Div(Sub(norm_cdf(f.uniform_max, f.data_mean, f.data_SE),
                 norm_cdf(f.uniform_min, f.data_mean, f.data_SE)),
             Sub(f.uniform_max, f.uniform_min)),
         "ratio")

\* the assignments "x_min = lo" and "x_max = hi", in this order
Window(f, lo, hi) ==
  IF IsErr(lo) THEN Raise(f, lo)
  ELSE IF IsErr(hi) THEN Raise([f EXCEPT !.x_min = lo], hi)
  ELSE [f EXCEPT !.x_min = lo, !.x_max = hi]

\* NormalWindow with min and max exchanged
NormalWindowNarrow(f) ==
  Window(f,
         max(Sub(f.data_mean, Mul(Py(5), f.data_SE)),
             Sub(f.normal_mode, Mul(Py(5), f.normal_SD))),
         min(Add(f.data_mean, Mul(Py(5), f.data_SE)),
             Add(f.normal_mode, Mul(Py(5), f.normal_SD))))

\* the integration window of a normal H1
NormalWindow(f) ==
  Window(f,
         min(Sub(f.data_mean, Mul(Py(5), f.data_SE)),
             Sub(f.normal_mode, Mul(Py(5), f.normal_SD))),
         max(Add(f.data_mean, Mul(Py(5), f.data_SE)),
             Add(f.normal_mode, Mul(Py(5), f.normal_SD))))

\* HalfWindow with "else" in place of "elif half == 'lower'"
HalfWindowElse(f) ==
  IF f.half = Str("upper")
    THEN Window(f, f.normal_mode, Add(f.normal_mode, Mul(Py(5), f.normal_SD)))
    ELSE Window(f, Sub(f.normal_mode, Mul(Py(5), f.normal_SD)), f.normal_mode)

\* the integration window of a half-normal H1; no assignment at all when
\* half is neither "upper" nor "lower"
HalfWindow(f) ==
  IF f.half = Str("upper")
    THEN Window(f, f.normal_mode, Add(f.normal_mode, Mul(Py(5), f.normal_SD)))
  ELSE IF f.half = Str("lower")
    THEN Window(f, Sub(f.normal_mode, Mul(Py(5), f.normal_SD)), f.normal_mode)
  ELSE f

\* f with the call of int_normPDF_prod that returned (or raised) r on record
Called(f, r) ==
  [f EXCEPT !.int_calls =
     Append(@, [m1 |-> f.data_mean, sd1 |-> f.data_SE, m2 |-> f.normal_mode,
                sd2 |-> f.normal_SD, x_min |-> f.x_min, x_max |-> f.x_max,
                result |-> r])]

\* likelihood_1 = factor * r, r the result of the call of int_normPDF_prod
Integrated(f, factor, r) ==
  Assign(Called(f, r), "likelihood_1",
         IF factor = 1 \/ IsErr(r) THEN r ELSE Mul(Py(factor), r), "ratio")

\* the call of int_normPDF_prod over [f.x_min, f.x_max] in the frame f the
\* window was assigned in; the result times factor becomes likelihood_1
Integrate(f, factor) ==
  IF f.pc = "raised" THEN f
  ELSE IF f.x_min.t = "unbound" \/ f.x_max.t = "unbound"
    THEN Raise(f, Err("UnboundLocalError"))
  ELSE Integrated(f, factor,
                  int_normPDF_prod(f.data_mean, f.data_SE, f.normal_mode,
                                   f.normal_SD, f.x_min, f.x_max))

Likelihood1Normal(f) == Integrate(NormalWindow(f), 1)

Likelihood1HalfNormal(f) == Integrate(HalfWindow(f), 2)

\* Compute data likelihood under alternative hypothesis H1
Likelihood1(f) ==
  CASE f.H1_distribution = "uniform" -> Likelihood1Uniform(f)
    [] f.H1_distribution = "normal" -> Likelihood1Normal(f)
    [] f.H1_distribution = "half-normal" -> Likelihood1HalfNormal(f)
    [] OTHER -> [f EXCEPT !.pc = "ratio"]

\* bayes_factor = likelihood_1 / likelihood_0
Ratio(f) ==
  IF f.likelihood_1.t = "unbound" \/ f.likelihood_0.t = "unbound"
    THEN Raise(f, Err("UnboundLocalError"))
  ELSE
    Assign(f, "bayes_factor", Div(f.likelihood_1, f.likelihood_0), "plot")

\* the H1 distribution drawn into the figure of f, height the height of a
\* uniform H1
DrawH1(f, height) ==
  IF f.H1_distribution = "uniform" /\ IsErr(height) THEN Raise(f, height)
  ELSE [f EXCEPT !.pc = "summary",
                 !.figure = @ \o <<"H1", "legend", "ylim">>]

\* if plot: draw the data, H0 and H1 distributions
Plotting(f) ==
  IF ~f.plot THEN [f EXCEPT !.pc = "summary"]
  ELSE DrawH1([f EXCEPT !.figure = @ \o <<"figure", "data", "H0">>],
              Div(Py(1), Sub(f.uniform_max, f.uniform_min)))

\* Strength with "<=" in place of the first "<"
StrengthInclusive(abs_bf) ==
  IF Le(abs_bf, Py(3)) THEN "Anecdotal"
  ELSE IF Lt(abs_bf, Py(10)) THEN "Moderate"
  ELSE IF Lt(abs_bf, Py(30)) THEN "Strong"
  ELSE IF Lt(abs_bf, Py(100)) THEN "Very strong"
  ELSE "Extreme"

Three == Py(3)
Ten == Py(10)
Thirty == Py(30)
Hundred == Py(100)

\* the hypothesis the summary names
Supported(bf) == IF Ge(bf, Py(1)) THEN "H1" ELSE "H0"

\* abs_bf of the summary
AbsBF(bf) == max(bf, Div(Py(1), bf))

\* the strength label of the criteria of Lee and Wagenmaker 2014
Strength(abs_bf) ==
  IF Lt(abs_bf, Three) THEN "Anecdotal"
  ELSE IF Lt(abs_bf, Ten) THEN "Moderate"
  ELSE IF Lt(abs_bf, Thirty) THEN "Strong"
  ELSE IF Lt(abs_bf, Hundred) THEN "Very strong"
  ELSE "Extreme"

\* the summary line printed, abs_bf computed first
Report(f, abs_bf) ==
  IF IsErr(abs_bf) THEN Raise(f, abs_bf)
  ELSE [f EXCEPT !.pc = "return",
                 !.printed =
                    Append(@, [bf |-> f.bayes_factor,
                               strength |-> Strength(abs_bf),
                               supported |-> Supported(f.bayes_factor)])]

\* if summary: print the Bayes factor, the strength and the supported hypothesis
Summary(f) ==
  IF ~f.summary THEN [f EXCEPT !.pc = "return"]
  ELSE Report(f, AbsBF(f.bayes_factor))

\* return bayes_factor
Return(f) ==
  [f EXCEPT !.pc = "done",
            !.outcome = [kind |-> "return", val |-> f.bayes_factor, err |-> ""]]

\* one step of the call from frame f
Step(f) ==
  CASE f.pc = "assert" -> AssertDistribution(f)
    [] f.pc = "derive" -> DeriveParameters(f)
    [] f.pc = "likelihood_0" -> Likelihood0(f)
    [] f.pc = "likelihood_1" -> Likelihood1(f)
    [] f.pc = "ratio" -> Ratio(f)
    [] f.pc = "plot" -> Plotting(f)
    [] f.pc = "summary" -> Summary(f)
    [] f.pc = "return" -> Return(f)
    [] OTHER -> f

RECURSIVE Run(_)
\* the frame in which the call that is at frame f ends
Run(f) == IF f.pc \in {"done", "raised"} THEN f ELSE Run(Step(f))

(***************************************************************************)
(* The calls checked                                                       *)
(***************************************************************************)
\* data_mean ranges over 0 .. MaxMean
MaxMean == 1
\* data_SE and normal_SD range over -1 .. MaxSD
MaxSD == 1
\* H1_value ranges over -1 .. MaxValue, the bounds of an explicit uniform H1
\* are 0 and MaxValue
MaxValue == 2

Means == {Py(n) : n \in 0 .. MaxMean}
SDs == {Py(n) : n \in -1 .. MaxSD}
H0Values == {Py(0), Py(1)}
H1Values == {None} \cup {Py(n) : n \in -1 .. MaxValue}
Distributions == Families \cup {"cauchy"}
Halves == {None, Str("upper"), Str("lower"), Str("both")}

UniformGiven ==
  {<<hi, lo>> : hi \in {None, Py(0), Py(MaxValue)},
                lo \in {None, Py(0), Py(MaxValue)}}
NormalGiven ==
  {<<mode, sd, hf>> : mode \in {None, Py(1)}, sd \in {None} \cup SDs,
                      hf \in {None}}
HalfNormalGiven ==
  {<<mode, sd, hf>> : mode \in {None, Py(1)}, sd \in {None} \cup SDs,
                      hf \in Halves}
\* the parameters of the families other than the chosen one: not given, or
\* given all the same
OthersUniform == {<<None, None>>, <<Py(MaxValue), Py(0)>>}
OthersNormal == {<<None, None, None>>, <<Py(0), Py(1), Str("upper")>>}

\* the explicit parameters a call with H1_distribution = dist is made with
ParamChoices(dist) ==
  LET mk(u, n) == Params(u[1], u[2], n[1], n[2], n[3])
  IN CASE dist = "uniform" ->
            {mk(u, n) : u \in UniformGiven, n \in OthersNormal}
       [] dist = "normal" ->
            {mk(u, n) : u \in OthersUniform, n \in NormalGiven}
       [] dist = "half-normal" ->
            {mk(u, n) : u \in OthersUniform, n \in HalfNormalGiven}
       [] OTHER ->
            {mk(u, n) : u \in OthersUniform, n \in OthersNormal}

Starts(f) ==
  /\ pc = f.pc
  /\ data_mean = f.data_mean
  /\ data_SE = f.data_SE
  /\ H1_distribution = f.H1_distribution
  /\ H1_value = f.H1_value
  /\ H0_value = f.H0_value
  /\ plot = f.plot
  /\ summary = f.summary
  /\ uniform_max = f.uniform_max
  /\ uniform_min = f.uniform_min
  /\ normal_mode = f.normal_mode
  /\ normal_SD = f.normal_SD
  /\ half = f.half
  /\ args = f.args
  /\ likelihood_0 = f.likelihood_0
  /\ likelihood_1 = f.likelihood_1
  /\ x_min = f.x_min
  /\ x_max = f.x_max
  /\ bayes_factor = f.bayes_factor
  /\ int_calls = f.int_calls
  /\ figure = f.figure
  /\ printed = f.printed
  /\ outcome = f.outcome

\* a call of bayes_factor is entered
Init ==
  \E dm \in Means, se \in SDs, dist \in Distributions, h1 \in H1Values,
     h0 \in H0Values, pl \in BOOLEAN, su \in BOOLEAN :
    \E prm \in ParamChoices(dist) :
      Starts(Call(dm, se, dist, h1, prm, h0, pl, su)) /\ probe = NoProbe

DoAssert == pc = "assert" /\ Becomes(AssertDistribution(Frame))
DoDerive == pc = "derive" /\ Becomes(DeriveParameters(Frame))
DoLikelihood0 == pc = "likelihood_0" /\ Becomes(Likelihood0(Frame))
DoLikelihood1 == pc = "likelihood_1" /\ Becomes(Likelihood1(Frame))
DoRatio == pc = "ratio" /\ Becomes(Ratio(Frame))
DoPlot == pc = "plot" /\ Becomes(Plotting(Frame))
DoSummary == pc = "summary" /\ Becomes(Summary(Frame))
DoReturn == pc = "return" /\ Becomes(Return(Frame))

Next ==
  \/ DoAssert
  \/ DoDerive
  \/ DoLikelihood0
  \/ DoLikelihood1
  \/ DoRatio
  \/ DoPlot
  \/ DoSummary
  \/ DoReturn

Spec == Init /\ [][Next]_vars

(***************************************************************************)
(* The summary on its own: the report of every positive Bayes factor       *)
(***************************************************************************)
\* the Bayes factors reported range over [2^-(MaxExp + 1), 2^MaxExp) and +inf
MaxExp == 8

\* every floating point number of that range
BayesFactors ==
  {Num(m, e - Precision, TRUE) :
     m \in 2^(Precision - 1) .. 2^Precision - 1, e \in -MaxExp .. MaxExp}
  \cup {Inf(1)}

\* a call that has computed the Bayes factor bf and is about to report it
Computed(bf) ==
  [Call(Py(0), Py(1), "normal", None,
        Params(None, None, Py(1), Py(1), None), Py(0), FALSE, TRUE)
     EXCEPT !.pc = "summary", !.bayes_factor = bf]

InitSummary ==
  \E bf \in BayesFactors : Starts(Computed(bf)) /\ probe = NoProbe

NextSummary ==
  \/ DoSummary
  \/ DoReturn

SpecSummary == InitSummary /\ [][NextSummary]_vars

(***************************************************************************)
(* int_normPDF_prod on its own: an interval and its two parts              *)
(***************************************************************************)
\* the ends of the intervals range over -MaxPoint .. MaxPoint
MaxPoint == 3

Points == {Py(n) : n \in -MaxPoint .. MaxPoint}
PositiveSDs == {Py(n) : n \in 1 .. MaxSD + 1}

\* f after a call of int_normPDF_prod with the distributions of p over [a, b]
UseIntegral(f, p, a, b, then) ==
  LET call == [m1 |-> p.m1, sd1 |-> p.sd1, m2 |-> p.m2, sd2 |-> p.sd2,
               x_min |-> a, x_max |-> b,
               result |-> int_normPDF_prod(p.m1, p.sd1, p.m2, p.sd2, a, b)]
  IN [f EXCEPT !.pc = then, !.int_calls = Append(f.int_calls, call)]

Idle ==
  [Call(Py(0), Py(1), "normal", None,
        Params(None, None, None, None, None), Py(0), FALSE, FALSE)
     EXCEPT !.pc = "int_left"]

InitIntegrator ==
  \E m1 \in Means, m2 \in {Py(n) : n \in 0 .. MaxValue},
     sd1 \in PositiveSDs, sd2 \in PositiveSDs,
     lo \in Points, mid \in Points, hi \in Points :
    /\ Lt(lo, mid)
    /\ Lt(mid, hi)
    /\ Starts(Idle)
    /\ probe = Probe(m1, sd1, m2, sd2, lo, mid, hi)

IntLeft ==
  /\ pc = "int_left"
  /\ Becomes(UseIntegral(Frame, probe, probe.lo, probe.mid, "int_right"))

IntRight ==
  /\ pc = "int_right"
  /\ Becomes(UseIntegral(Frame, probe, probe.mid, probe.hi, "int_whole"))

IntWhole ==
  /\ pc = "int_whole"
  /\ Becomes(UseIntegral(Frame, probe, probe.lo, probe.hi, "int_done"))

NextIntegrator ==
  \/ IntLeft
  \/ IntRight
  \/ IntWhole

SpecIntegrator == InitIntegrator /\ [][NextIntegrator]_vars

(***************************************************************************)
(* Properties                                                              *)
(***************************************************************************)
Ended == pc \in {"done", "raised"}

\* the call has a recognised family and is past the derivation of parameters
Resolved == H1_distribution \in Families /\ pc \notin {"assert", "derive"}

\* two calls end the same way: both raise, or both return the same number
SameOutcome(o1, o2) ==
  /\ o1.kind = o2.kind
  /\ o1.kind = "return" =>
       \/ o1.val.t = "nan" /\ o2.val.t = "nan"
       \/ Eq(o1.val, o2.val)

AsPython(a) == [a EXCEPT !.np = FALSE]

\* the derivation table applied to the call's H1_value and H0_value
TableSD == np_abs(Sub(H1_value, H0_value))
TableHalf == IF Gt(H1_value, H0_value) THEN Str("upper") ELSE Str("lower")
TableLow == IF Lt(H1_value, H0_value) THEN H1_value ELSE H0_value
TableHigh == IF Lt(H1_value, H0_value) THEN H0_value ELSE H1_value

\* the parameters in use are those of the derivation table
Tabulated ==
  CASE H1_distribution = "uniform" ->
         Eq(uniform_min, TableLow) /\ Eq(uniform_max, TableHigh)
    [] H1_distribution = "normal" ->
         Eq(normal_mode, H1_value) /\ Eq(normal_SD, Div(TableSD, Py(2)))
    [] H1_distribution = "half-normal" ->
         /\ Eq(normal_mode, H0_value)
         /\ Eq(normal_SD, TableSD)
         /\ half = TableHalf
    [] OTHER -> FALSE

\* the call with the table's parameters given explicitly and no H1_value
TableCall ==
  Call(data_mean, data_SE, H1_distribution, None,
       CASE H1_distribution = "uniform" ->
              Params(TableHigh, TableLow, None, None, None)
         [] H1_distribution = "normal" ->
              Params(None, None, H1_value,
                     AsPython(Div(TableSD, Py(2))), None)
         [] OTHER ->
              Params(None, None, H0_value, AsPython(TableSD), TableHalf),
       H0_value, plot, summary)

\* C1: whenever a scalar H1_value is supplied (0 and H0_value included) the
\* parameters used for the likelihood are those of the derivation table, and
\* the call ends as the call with those parameters given explicitly does.
C1_ShortcutAsTabulated ==
  (Resolved /\ H1_value.t = "num") =>
    /\ Tabulated
    /\ Ended => SameOutcome(outcome, Run(TableCall).outcome)

\* the explicit parameters of the chosen family are all supplied
Complete ==
  CASE H1_distribution = "uniform" ->
         IsFloat(args.uniform_max) /\ IsFloat(args.uniform_min)
    [] H1_distribution = "normal" ->
         IsFloat(args.normal_mode) /\ IsFloat(args.normal_SD)
    [] H1_distribution = "half-normal" ->
         /\ IsFloat(args.normal_mode)
         /\ IsFloat(args.normal_SD)
         /\ args.half \in {Str("upper"), Str("lower")}
    [] OTHER -> FALSE

\* neither H1_value nor the complete explicit parameters are supplied
Unspecified == H1_value = None /\ ~Complete

\* the exception of the only check of the specification the code makes
InvalidSpecification == {"AssertionError"}

\* C2 as stated: a call with neither H1_value nor the complete explicit
\* parameters fails with the error of an invalid specification and returns
\* no Bayes factor.
C2_FailsAsInvalidSpecification ==
  Unspecified =>
    /\ outcome.kind # "return"
    /\ pc = "raised" => outcome.err \in InvalidSpecification

\* C2 as amended: such a call never gets past the H1 likelihood; it computes
\* no Bayes factor, draws and prints nothing, and ends with AssertionError for
\* an unknown family, with UnboundLocalError for a half-normal H1 whose half
\* is neither "upper" nor "lower", and with TypeError otherwise.
C2_FailsWithoutResult ==
  Unspecified =>
    /\ pc \in {"assert", "derive", "likelihood_0", "likelihood_1", "raised"}
    /\ outcome.kind # "return"
    /\ bayes_factor = Unbound
    /\ figure = << >>
    /\ printed = << >>
    /\ pc = "raised" =>
         outcome.err =
           IF H1_distribution \notin Families THEN "AssertionError"
           ELSE IF /\ H1_distribution = "half-normal"
                   /\ args.half \notin {Str("upper"), Str("lower")}
             THEN "UnboundLocalError"
           ELSE "TypeError"

C2_Witness ==
  /\ Unspecified
  /\ H1_distribution = "half-normal"
  /\ args.half = Str("both")
  /\ IsFloat(args.normal_mode)
  /\ plot
  /\ summary
  /\ pc = "raised"

\* C3: a call whose H1_distribution is none of the three families raises at
\* the assertion, before any parameter is derived, any likelihood computed,
\* anything drawn or printed, whatever the other arguments are.
C3_UnknownFamilyFailsFirst ==
  (H1_distribution \notin Families /\ pc # "assert") =>
    /\ pc = "raised"
    /\ outcome = [kind |-> "raise", val |-> None, err |-> "AssertionError"]
    /\ Params(uniform_max, uniform_min, normal_mode, normal_SD, half) = args
    /\ likelihood_0 = Unbound
    /\ likelihood_1 = Unbound
    /\ x_min = Unbound
    /\ x_max = Unbound
    /\ bayes_factor = Unbound
    /\ int_calls = << >>
    /\ figure = << >>
    /\ printed = << >>

C3_Witness ==
  /\ H1_distribution = "cauchy"
  /\ Truthy(H1_value)
  /\ IsFloat(args.uniform_max)
  /\ plot
  /\ summary
  /\ pc = "raised"

\* the distribution of the data or of H1 is degenerate
Degenerate ==
  \/ Le(data_SE, Py(0))
  \/ /\ H1_distribution \in {"normal", "half-normal"}
     /\ IsFloat(normal_SD)
     /\ Le(normal_SD, Py(0))
  \/ /\ H1_distribution = "uniform"
     /\ Eq(uniform_max, uniform_min)

\* C4: a call with data_SE <= 0, with an explicit or derived normal_SD <= 0
\* or with an explicit or derived uniform interval of width 0 fails: it
\* returns no Bayes factor.
C4_DegenerateRejected ==
  (Resolved /\ Degenerate) => pc # "done" /\ outcome.kind # "return"

\* the call's explicit parameters with those of the other families left out
OwnParams ==
  CASE H1_distribution = "uniform" ->
         Params(args.uniform_max, args.uniform_min, None, None, None)
    [] H1_distribution = "normal" ->
         Params(None, None, args.normal_mode, args.normal_SD, None)
    [] OTHER ->
         Params(None, None, args.normal_mode, args.normal_SD, args.half)

\* C5: without H1_value the explicit parameters reach the likelihood
\* unchanged; with H1_value the derived values replace the explicit ones of
\* the chosen family; the parameters of the other families do not change how
\* the call ends.
C5_Resolution ==
  Resolved =>
    /\ H1_value = None =>
         Params(uniform_max, uniform_min, normal_mode, normal_SD, half) = args
    /\ H1_value.t = "num" => Tabulated
    /\ Ended =>
         SameOutcome(outcome,
                     Run(Call(data_mean, data_SE, H1_distribution, H1_value,
                              OwnParams, H0_value, plot, summary)).outcome)

\* C7: a call returns a number or fails with nothing drawn and nothing
\* printed, whatever the plot and summary flags are.
C7_NoPartialResult ==
  /\ pc = "done" => outcome.kind = "return" /\ IsFloat(outcome.val)
  /\ pc = "raised" =>
       /\ outcome.kind = "raise"
       /\ figure = << >>
       /\ printed = << >>

\* C10: the four calls that differ in the plot and summary flags only all
\* return the same value or all fail.
C10_FlagsDoNotChangeOutcome ==
  Ended =>
    \A pl \in BOOLEAN, su \in BOOLEAN :
      SameOutcome(outcome,
                  Run(Call(data_mean, data_SE, H1_distribution, H1_value,
                           args, H0_value, pl, su)).outcome)

\* the Bayes factor of the summary line printed, its reciprocal as the code
\* computes it and the larger of the two
Reported == printed[1].bf
Reciprocal == Div(Py(1), Reported)
Larger == IF Gt(Reciprocal, Reported) THEN Reciprocal ELSE Reported

Positive(a) == (a.t = "num" /\ a.m > 0) \/ a = Inf(1)

\* the bands of the strength of evidence: label, lower end, upper end
Bands ==
  { <<"Anecdotal", Py(1), Three>>, <<"Moderate", Three, Ten>>,
    <<"Strong", Ten, Thirty>>, <<"Very strong", Thirty, Hundred>>,
    <<"Extreme", Hundred, Inf(1)>> }

InBand(a, b) == Ge(a, b[2]) /\ (Lt(a, b[3]) \/ b[3] = Inf(1))

\* C6: the summary of a positive Bayes factor bf names H1 iff bf >= 1 and H0
\* otherwise, and its strength is the label of the one band of Anecdotal
\* [1, 3), Moderate [3, 10), Strong [10, 30), Very strong [30, 100), Extreme
\* [100, inf) that holds max(bf, 1/bf); 1/bf gets the same strength as bf.
C6_SummaryBands ==
  (printed # << >> /\ Positive(Reported)) =>
    /\ printed[1].supported = (IF Ge(Reported, Py(1)) THEN "H1" ELSE "H0")
    /\ Cardinality({b \in Bands : InBand(Larger, b)}) = 1
    /\ \A b \in Bands : InBand(Larger, b) <=> printed[1].strength = b[1]
    /\ Strength(AbsBF(Reciprocal)) = printed[1].strength

C6_Witness ==
  /\ printed # << >>
  /\ Eq(Reciprocal, Thirty)
  /\ printed[1].strength = "Very strong"
  /\ printed[1].supported = "H0"
  /\ pc = "done"

\* the results of int_normPDF_prod over [lo, mid], [mid, hi] and [lo, hi]
Left == int_calls[1].result
Right == int_calls[2].result
Whole == int_calls[3].result

\* C8 as stated: with positive SDs and lo < mid < hi the integrals over
\* [lo, mid] and [mid, hi] add up to exactly the integral over [lo, hi].
C8_ExactlyAdditive ==
  pc = "int_done" => Eq(Add(Left, Right), Whole)

\* C8 as amended: they add up to the integral over [lo, hi] up to the
\* rounding of the floating point operations: the difference is at most
\* 4 * 2^-Precision times the scale constant c.
C8_AdditiveUpToRounding ==
  pc = "int_done" =>
    Le(np_abs(Sub(Add(Left, Right), Whole)),
       Mul(ProdScale(probe.m1, Mul(probe.sd1, probe.sd1), probe.m2,
                     Mul(probe.sd2, probe.sd2)),
           Num(1, 2 - Precision, TRUE)))

C8_Witness ==
  /\ pc = "int_done"
  /\ Gt(Left, Py(0))
  /\ Gt(Right, Py(0))
  /\ ~Eq(Add(Left, Right), Whole)
  /\ ~Eq(probe.m1, probe.m2)
  /\ ~Eq(probe.sd1, probe.sd2)

\* the one call of int_normPDF_prod a call of bayes_factor makes
TheCall == int_calls[1]

FiveSE == Mul(Py(5), data_SE)
FiveSD == Mul(Py(5), normal_SD)

\* a is the smallest (the largest) of itself, b and c
Least(a, b, c) == (Eq(a, b) \/ Eq(a, c)) /\ Le(a, b) /\ Le(a, c)
Greatest(a, b, c) == (Eq(a, b) \/ Eq(a, c)) /\ Ge(a, b) /\ Ge(a, c)

\* C9: when bayes_factor calls int_normPDF_prod with data_SE > 0 and
\* normal_SD > 0 the interval has x_min < x_max; for a normal H1 it is
\* [min(data_mean - 5 data_SE, normal_mode - 5 normal_SD),
\*  max(data_mean + 5 data_SE, normal_mode + 5 normal_SD)] and holds both
\* means; for a half-normal H1 it is [normal_mode, normal_mode + 5 normal_SD]
\* (upper) or [normal_mode - 5 normal_SD, normal_mode] (lower) and the
\* integral is doubled.
C9_IntegrationWindow ==
  (int_calls # << >> /\ Gt(data_SE, Py(0)) /\ Gt(normal_SD, Py(0))) =>
    /\ TheCall.m1 = data_mean /\ TheCall.sd1 = data_SE
    /\ TheCall.m2 = normal_mode /\ TheCall.sd2 = normal_SD
    /\ TheCall.x_min = x_min /\ TheCall.x_max = x_max
    /\ Lt(x_min, x_max)
    /\ H1_distribution = "normal" =>
         /\ Least(x_min, Sub(data_mean, FiveSE), Sub(normal_mode, FiveSD))
         /\ Greatest(x_max, Add(data_mean, FiveSE), Add(normal_mode, FiveSD))
         /\ Le(x_min, data_mean) /\ Le(data_mean, x_max)
         /\ Le(x_min, normal_mode) /\ Le(normal_mode, x_max)
         /\ likelihood_1 = TheCall.result
    /\ H1_distribution = "half-normal" =>
         /\ half = Str("upper") =>
              Eq(x_min, normal_mode) /\ Eq(x_max, Add(normal_mode, FiveSD))
         /\ half = Str("lower") =>
              Eq(x_min, Sub(normal_mode, FiveSD)) /\ Eq(x_max, normal_mode)
         /\ half \in {Str("upper"), Str("lower")}
         /\ likelihood_1 = Mul(Py(2), TheCall.result)
    /\ H1_distribution # "uniform"

C9_Witness ==
  /\ int_calls # << >>
  /\ H1_distribution = "half-normal"
  /\ half = Str("lower")
  /\ Truthy(H1_value)
  /\ Gt(data_SE, Py(0))
  /\ Gt(normal_SD, Py(0))
  /\ Gt(likelihood_1, Py(0))
  /\ pc = "done"

=============================================================================
